---- MODULE Spec2Model ----
(***************************************************************************)
(* Admission queue of the coin-operated print kiosk (queue-manager.js) and *)
(* the HTTP handlers of server.js that drive it.                           *)
(*                                                                         *)
(* One action is one event-loop callback (an HTTP handler up to its next   *)
(* await, or a setTimeout callback); Node runs them one at a time.  Every  *)
(* Date.now() read inside one callback returns the value of now.           *)
(***************************************************************************)
EXTENDS Integers, Sequences, FiniteSets, Bags, TLC

\* ---- program constants ----
sessionTimeout == 90000
MAX_QUEUE_SIZE == 10
maxWaitTime == 10 * 60 * 1000
claimTTL == 5 * 60 * 1000
sweepInterval == 60000
maxReconnectAttempts == 5
reconnectDelay == 8000
startupDelay == 5000
resetDelay == 1000
setPortDelay == 1000
nextPortDelay == 500
dtrLowTime == 500
bootWait == 3000

\* ---- bounds of the model ----
MaxTime == 136000
MaxTimeLong == 631000
MaxInFlight == 1
NumCapSessions == 12
Epoch == 1000
MaxPending == 1
MaxTimeLedger == 481000
MaxTimeWait == 1261000
MaxClaims == 1
LedgerStep == sweepInterval \div 2
MaxObservers == 2
FailuresCounted == 6

SessionIds == {1, 2, 3}
FineIds == {1, 2}
CapIds == 1..NumCapSessions
AllIds == SessionIds \cup CapIds
FileNames == {"a.pdf"}
TimeSteps == {45000}
LongTimeSteps == {90000}
NULL == 0
Absent == -1

VARIABLES queue, activeSession, sessions, lastActivityTime, timers,
          printing, now,
          claimedCoins, lastCoinDetected, sweepDue,
          config, isConnected, reconnectAttempts, port, ports, tasks,
          coinCallbacks, written, invoked, failedAttempts

\* the coin-claim ledger of server.js and the "last coin" slot
ledgerVars == <<claimedCoins, lastCoinDetected, sweepDue>>

\* the CoinListener singleton, its pending continuations and what the last
\* callback wrote to the link and delivered to the observers
bridgeVars == <<config, isConnected, reconnectAttempts, port, ports, tasks,
                coinCallbacks, written, invoked, failedAttempts>>

\* the QueueManager singleton, its timers and the print requests in flight
queueVars == <<queue, activeSession, sessions, lastActivityTime, timers,
               printing>>

vars == <<queue, activeSession, sessions, lastActivityTime, timers,
          printing, now, ledgerVars, bridgeVars>>

\* The mutable fields of the QueueManager singleton plus the pending
\* setTimeout callbacks it has armed, as one value the methods transform.
Cur ==
  [queue |-> queue, activeSession |-> activeSession, sessions |-> sessions,
   lastActivityTime |-> lastActivityTime, timers |-> timers]

Commit(q) ==
  /\ queue' = q.queue
  /\ activeSession' = q.activeSession
  /\ sessions' = q.sessions
  /\ lastActivityTime' = q.lastActivityTime
  /\ timers' = q.timers

\* ---- helpers for JS collections ----
Without(f, k) == [x \in (DOMAIN f) \ {k} |-> f[x]]
With(f, k, v) == [x \in (DOMAIN f) \cup {k} |-> IF x = k THEN v ELSE f[x]]

includes(seq, s) == \E i \in 1..Len(seq) : seq[i] = s

\* Array.indexOf, 0-based, -1 when absent
indexOf(seq, s) ==
  IF includes(seq, s)
  THEN (CHOOSE i \in 1..Len(seq) : seq[i] = s /\ \A j \in 1..(i-1) : seq[j] # s) - 1
  ELSE -1

\* Array.splice(index, 1) with a 0-based index
splice(seq, index) ==
  [i \in 1..(Len(seq) - 1) |-> IF i <= index THEN seq[i] ELSE seq[i + 1]]

Max(a, b) == IF a >= b THEN a ELSE b

\* setTimeout(() => this.checkSessionTimeout(sessionId), delay).  Two pending
\* callbacks for the same session and due time run the same check at the same
\* instant, so the pending callbacks are kept as a set.
setTimeout(q, s, delay) ==
  [q EXCEPT !.timers = @ \cup {[sessionId |-> s, due |-> now + delay]}]

\* ---- QueueManager methods ----
NotFound ==
  [exists |-> FALSE, status |-> "notfound", position |-> Absent,
   canProceed |-> FALSE, timeRemaining |-> Absent, estimatedWait |-> Absent,
   queueFull |-> FALSE]

\* a status report that counts positions from 0
getQueueStatus_ZeroBased(q, s) ==
  IF s \notin DOMAIN q.sessions THEN NotFound
  ELSE IF q.activeSession = s THEN
    LET session == q.sessions[s]
        activatedAt == IF session.activatedAt = Absent THEN now ELSE session.activatedAt
    IN [exists |-> TRUE, status |-> "active", position |-> 0,
        canProceed |-> TRUE,
        timeRemaining |-> Max(0, sessionTimeout - (now - activatedAt)),
        estimatedWait |-> Absent, queueFull |-> FALSE]
  ELSE LET position == indexOf(q.queue, s) IN
    IF position >= 0 THEN
      [exists |-> TRUE, status |-> "waiting", position |-> position,
       canProceed |-> FALSE, timeRemaining |-> Absent,
       estimatedWait |-> position * 60, queueFull |-> FALSE]
    ELSE
      [exists |-> TRUE, status |-> "unknown", position |-> Absent,
       canProceed |-> FALSE, timeRemaining |-> Absent,
       estimatedWait |-> Absent, queueFull |-> FALSE]

getQueueStatus(q, s) ==
  IF s \notin DOMAIN q.sessions THEN NotFound
  ELSE IF q.activeSession = s THEN
    LET session == q.sessions[s]
        activatedAt == IF session.activatedAt = Absent THEN now ELSE session.activatedAt
    IN [exists |-> TRUE, status |-> "active", position |-> 0,
        canProceed |-> TRUE,
        timeRemaining |-> Max(0, sessionTimeout - (now - activatedAt)),
        estimatedWait |-> Absent, queueFull |-> FALSE]
  ELSE LET position == indexOf(q.queue, s) + 1 IN
    IF position > 0 THEN
      [exists |-> TRUE, status |-> "waiting", position |-> position,
       canProceed |-> FALSE, timeRemaining |-> Absent,
       estimatedWait |-> position * 60, queueFull |-> FALSE]
    ELSE
      [exists |-> TRUE, status |-> "unknown", position |-> Absent,
       canProceed |-> FALSE, timeRemaining |-> Absent,
       estimatedWait |-> Absent, queueFull |-> FALSE]

\* this.sessions.get(id)?.fileInfo of an id without session data
NoFileInfo == [fileName |-> "", timestamp |-> Absent]

\* getQueueInfo(): the overall picture the admin endpoint returns
getQueueInfo(q) ==
  [activeSession |-> q.activeSession,
   queueLength |-> Len(q.queue),
   totalSessions |-> Cardinality(DOMAIN q.sessions),
   queue |-> [index \in 1..Len(q.queue) |->
                [sessionId |-> q.queue[index],
                 position |-> index,
                 fileInfo |-> IF q.queue[index] \in DOMAIN q.sessions
                              THEN q.sessions[q.queue[index]].fileInfo
                              ELSE NoFileInfo]]]

\* an admission check that lets every known session pay
canProceedToPayment_AnyKnown(q, s) == s \in DOMAIN q.sessions

canProceedToPayment(q, s) == q.activeSession = s

\* an activation that arms no timeout
Activate_NoTimer(q, s) ==
  [q EXCEPT !.activeSession = s,
            !.sessions[s].status = "active",
            !.sessions[s].activatedAt = now,
            !.lastActivityTime = With(@, s, now)]

\* the activation block shared by joinQueue (389-398) and processQueue (432-440)
Activate(q, s) ==
  setTimeout(
    [q EXCEPT !.activeSession = s,
              !.sessions[s].status = "active",
              !.sessions[s].activatedAt = now,
              !.lastActivityTime = With(@, s, now)],
    s, sessionTimeout)

RECURSIVE removeSession(_, _, _)
RECURSIVE processQueue(_)
RECURSIVE cleanupFrom(_, _)

\* for (const [sessionId, session] of this.sessions): the entries still to
\* visit are todo; an entry deleted meanwhile is skipped.  The Map is walked
\* in id order here; each visit removes at most the visited entry.
\* a sweep that also removes a session exactly maxWaitTime old
cleanupFrom_Inclusive(q, todo) ==
  IF todo = {} THEN q
  ELSE LET s == CHOOSE x \in todo : \A y \in todo : x <= y
           expired == /\ s \in DOMAIN q.sessions
                      /\ q.sessions[s].status = "waiting"
                      /\ (now - q.sessions[s].joinedAt) >= maxWaitTime
       IN cleanupFrom(IF expired THEN removeSession(q, s, TRUE) ELSE q,
                      todo \ {s})

cleanupFrom(q, todo) ==
  IF todo = {} THEN q
  ELSE LET s == CHOOSE x \in todo : \A y \in todo : x <= y
           expired == /\ s \in DOMAIN q.sessions
                      /\ q.sessions[s].status = "waiting"
                      /\ (now - q.sessions[s].joinedAt) > maxWaitTime
       IN cleanupFrom(IF expired THEN removeSession(q, s, TRUE) ELSE q,
                      todo \ {s})

cleanupExpiredSessions(q) == cleanupFrom(q, DOMAIN q.sessions)

\* a promotion that reads the head of the queue without removing it
processQueue_NoShift(q) ==
  LET c == cleanupExpiredSessions(q) IN
  IF Len(c.queue) = 0 THEN [c EXCEPT !.activeSession = NULL]
  ELSE LET nextSessionId == Head(c.queue)
       IN IF nextSessionId \notin DOMAIN c.sessions
          THEN [c EXCEPT !.activeSession = NULL]
          ELSE Activate(c, nextSessionId)

\* a promotion that takes the newest waiting session (pop instead of shift)
processQueue_Lifo(q) ==
  LET c == cleanupExpiredSessions(q) IN
  IF Len(c.queue) = 0 THEN [c EXCEPT !.activeSession = NULL]
  ELSE LET nextSessionId == c.queue[Len(c.queue)]
           d == [c EXCEPT !.queue = SubSeq(@, 1, Len(@) - 1)]
       IN IF nextSessionId \notin DOMAIN d.sessions
          THEN processQueue(d)
          ELSE Activate(d, nextSessionId)

processQueue(q) ==
  LET c == cleanupExpiredSessions(q) IN
  IF Len(c.queue) = 0 THEN [c EXCEPT !.activeSession = NULL]
  ELSE LET nextSessionId == Head(c.queue)
           d == [c EXCEPT !.queue = Tail(@)]
       IN IF nextSessionId \notin DOMAIN d.sessions
          THEN processQueue(d)
          ELSE Activate(d, nextSessionId)

\* a removal that frees the slot or the queue position but keeps the record
removeSession_KeepsData(q, s, processNext) ==
  LET wasActive == q.activeSession = s
      queueIndex == indexOf(q.queue, s)
      r == [q EXCEPT !.activeSession = IF wasActive THEN NULL ELSE @,
                     !.queue = IF queueIndex > -1 THEN splice(@, queueIndex) ELSE @,
                     !.lastActivityTime = Without(@, s)]
  IN IF wasActive /\ processNext THEN processQueue(r) ELSE r

\* a removal that never advances the queue
removeSession_NoPromote(q, s, processNext) ==
  LET wasActive == q.activeSession = s
      queueIndex == indexOf(q.queue, s)
  IN [q EXCEPT !.activeSession = IF wasActive THEN NULL ELSE @,
               !.queue = IF queueIndex > -1 THEN splice(@, queueIndex) ELSE @,
               !.sessions = Without(@, s),
               !.lastActivityTime = Without(@, s)]

\* a removal that processes the queue whoever was removed
removeSession_AlwaysProcess(q, s, processNext) ==
  LET wasActive == q.activeSession = s
      queueIndex == indexOf(q.queue, s)
      r == [q EXCEPT !.activeSession = IF wasActive THEN NULL ELSE @,
                     !.queue = IF queueIndex > -1 THEN splice(@, queueIndex) ELSE @,
                     !.sessions = Without(@, s),
                     !.lastActivityTime = Without(@, s)]
  IN IF processNext THEN processQueue(r) ELSE r

removeSession(q, s, processNext) ==
  LET wasActive == q.activeSession = s
      queueIndex == indexOf(q.queue, s)
      r == [q EXCEPT !.activeSession = IF wasActive THEN NULL ELSE @,
                     !.queue = IF queueIndex > -1 THEN splice(@, queueIndex) ELSE @,
                     !.sessions = Without(@, s),
                     !.lastActivityTime = Without(@, s)]
  IN IF wasActive /\ processNext THEN processQueue(r) ELSE r

QueueFullResult ==
  [exists |-> FALSE, status |-> "full", position |-> Absent,
   canProceed |-> FALSE, timeRemaining |-> Absent, estimatedWait |-> Absent,
   queueFull |-> TRUE]

\* the new session's table entry (lines 380-385)
NewSession(s, fileInfo) ==
  [id |-> s, fileInfo |-> fileInfo, joinedAt |-> now,
   status |-> "waiting", activatedAt |-> Absent]

\* a join that activates whenever nobody waits, not whenever the slot is free
joinQueue_ActivateOnEmptyQueue(q, s, fileInfo) ==
  IF s \in DOMAIN q.sessions THEN [q |-> q, ret |-> getQueueStatus(q, s)]
  ELSE IF Len(q.queue) >= MAX_QUEUE_SIZE /\ q.activeSession # NULL
  THEN [q |-> q, ret |-> QueueFullResult]
  ELSE
    LET a == [q EXCEPT !.sessions = With(@, s, NewSession(s, fileInfo))]
        b == IF Len(a.queue) = 0 THEN Activate(a, s)
             ELSE IF ~includes(a.queue, s)
                  THEN [a EXCEPT !.queue = Append(@, s)]
                  ELSE a
    IN [q |-> b, ret |-> getQueueStatus(b, s)]

\* a join that stores the session before it checks the capacity
joinQueue_FullStillStores(q, s, fileInfo) ==
  IF s \in DOMAIN q.sessions THEN [q |-> q, ret |-> getQueueStatus(q, s)]
  ELSE
    LET a == [q EXCEPT !.sessions = With(@, s, NewSession(s, fileInfo))]
        b == IF a.activeSession = NULL THEN Activate(a, s)
             ELSE IF ~includes(a.queue, s)
                  THEN [a EXCEPT !.queue = Append(@, s)]
                  ELSE a
    IN IF Len(q.queue) >= MAX_QUEUE_SIZE /\ q.activeSession # NULL
       THEN [q |-> a, ret |-> QueueFullResult]
       ELSE [q |-> b, ret |-> getQueueStatus(b, s)]

\* a join whose capacity test is > instead of >=
joinQueue_OffByOne(q, s, fileInfo) ==
  IF s \in DOMAIN q.sessions THEN [q |-> q, ret |-> getQueueStatus(q, s)]
  ELSE IF Len(q.queue) > MAX_QUEUE_SIZE /\ q.activeSession # NULL
  THEN [q |-> q, ret |-> QueueFullResult]
  ELSE
    LET a == [q EXCEPT !.sessions = With(@, s, NewSession(s, fileInfo))]
        b == IF a.activeSession = NULL THEN Activate(a, s)
             ELSE IF ~includes(a.queue, s)
                  THEN [a EXCEPT !.queue = Append(@, s)]
                  ELSE a
    IN [q |-> b, ret |-> getQueueStatus(b, s)]

\* a re-join that overwrites the stored file info
joinQueue_RejoinOverwrites(q, s, fileInfo) ==
  IF s \in DOMAIN q.sessions
  THEN LET o == [q EXCEPT !.sessions[s].fileInfo = fileInfo]
       IN [q |-> o, ret |-> getQueueStatus(o, s)]
  ELSE IF Len(q.queue) >= MAX_QUEUE_SIZE /\ q.activeSession # NULL
  THEN [q |-> q, ret |-> QueueFullResult]
  ELSE
    LET a == [q EXCEPT !.sessions = With(@, s, NewSession(s, fileInfo))]
        b == IF a.activeSession = NULL THEN Activate(a, s)
             ELSE IF ~includes(a.queue, s)
                  THEN [a EXCEPT !.queue = Append(@, s)]
                  ELSE a
    IN [q |-> b, ret |-> getQueueStatus(b, s)]

\* returns the new manager state and the method's return value
joinQueue(q, s, fileInfo) ==
  IF s \in DOMAIN q.sessions THEN [q |-> q, ret |-> getQueueStatus(q, s)]
  ELSE IF Len(q.queue) >= MAX_QUEUE_SIZE /\ q.activeSession # NULL
  THEN [q |-> q, ret |-> QueueFullResult]
  ELSE
    LET a == [q EXCEPT !.sessions = With(@, s, NewSession(s, fileInfo))]
        b == IF a.activeSession = NULL THEN Activate(a, s)
             ELSE IF ~includes(a.queue, s)
                  THEN [a EXCEPT !.queue = Append(@, s)]
                  ELSE a
    IN [q |-> b, ret |-> getQueueStatus(b, s)]

\* a completion that advances the queue whoever completed
completeSession_Advances(q, s) == processQueue(removeSession(q, s, FALSE))

\* completedSessions, which completeSession also increments, is read by log
\* lines only and is not part of the state
completeSession(q, s) == removeSession(q, s, TRUE)

\* a heartbeat that refreshes whoever sends it
updateActivity_Anyone(q, s) ==
  IF s \in DOMAIN q.sessions
  THEN [q EXCEPT !.lastActivityTime = With(@, s, now)]
  ELSE q

updateActivity(q, s) ==
  IF q.activeSession = s
  THEN [q EXCEPT !.lastActivityTime = With(@, s, now)]
  ELSE q

\* a timeout that frees the slot without advancing the queue
checkSessionTimeout_NoProcess(q, s) ==
  IF q.activeSession # s THEN q
  ELSE LET lastActivity == IF s \in DOMAIN q.lastActivityTime
                           THEN q.lastActivityTime[s] ELSE 0
           timeSinceActivity == now - lastActivity
       IN IF timeSinceActivity >= sessionTimeout
          THEN removeSession(q, s, FALSE)
          ELSE setTimeout(q, s, sessionTimeout - timeSinceActivity)

\* a timeout check that trusts its schedule instead of the elapsed time
checkSessionTimeout_NoRecheck(q, s) ==
  IF q.activeSession # s THEN q ELSE removeSession(q, s, TRUE)

checkSessionTimeout(q, s) ==
  IF q.activeSession # s THEN q
  ELSE LET lastActivity == IF s \in DOMAIN q.lastActivityTime
                           THEN q.lastActivityTime[s] ELSE 0
           timeSinceActivity == now - lastActivity
       IN IF timeSinceActivity >= sessionTimeout
          THEN removeSession(q, s, TRUE)
          ELSE setTimeout(q, s, sessionTimeout - timeSinceActivity)

\* ---- the coin-claim ledger (server.js) ----
\* JavaScript values that a field of a coin or of a request body can hold;
\* a string is the sequence of its characters
JSNum(n) == [kind |-> "number", value |-> n]
JSStr(str) == [kind |-> "string", value |-> str]
JSFunction == [kind |-> "function", value |-> 0]
JSUndefined == [kind |-> "undefined", value |-> 0]
truthy(x) ==
  \/ x.kind = "function"
  \/ x.kind = "number" /\ x.value # 0
  \/ x.kind = "string" /\ x.value # <<>>

\* the decimal text of a natural number
DigitChars == <<"0", "1", "2", "3", "4", "5", "6", "7", "8", "9">>

RECURSIVE Digits(_)
Digits(n) ==
  IF n < 10 THEN <<DigitChars[n + 1]>>
  ELSE Digits(n \div 10) \o <<DigitChars[(n % 10) + 1]>>

\* the text a template literal puts in for a value
toText(x) ==
  IF x.kind = "number" THEN Digits(x.value)
  ELSE IF x.kind = "string" THEN x.value
  ELSE IF x.kind = "function"
  THEN <<"f", "u", "n", "c", "t", "i", "o", "n">>
  ELSE <<"u", "n", "d", "e", "f", "i", "n", "e", "d">>

\* `${timestamp}_${value}`
coinKey(timestamp, value) == toText(timestamp) \o <<"_">> \o toText(value)

\* POST /api/claim-coin: the new content of claimedCoins
claimCoin(c, timestamp, value, sessionId) ==
  IF ~truthy(timestamp) \/ ~truthy(value) \/ sessionId = NULL THEN c
  ELSE With(c, coinKey(timestamp, value),
            [timestamp |-> timestamp, value |-> value,
             sessionId |-> sessionId, claimedAt |-> now])

\* claimedCoins.get(coinKey) as GET /api/arduino-status uses it
NotClaimed ==
  [timestamp |-> JSUndefined, value |-> JSUndefined, sessionId |-> NULL,
   claimedAt |-> Absent]

lookup(c, timestamp, value) ==
  IF coinKey(timestamp, value) \in DOMAIN c
  THEN c[coinKey(timestamp, value)] ELSE NotClaimed

\* a sweep that deletes an entry as soon as it is exactly five minutes old
sweep_Inclusive(c) ==
  LET fiveMinutesAgo == now - claimTTL
  IN [k \in {x \in DOMAIN c : ~(c[x].claimedAt <= fiveMinutesAgo)} |-> c[k]]

\* the setInterval callback: entries claimed more than five minutes ago go
sweep(c) ==
  LET fiveMinutesAgo == now - claimTTL
  IN [k \in {x \in DOMAIN c : ~(c[x].claimedAt < fiveMinutesAgo)} |-> c[k]]

\* the observer server.js registers with the bridge: the new "last coin"
serverCoinCallback(coinValue, coinType) ==
  <<[value |-> coinValue, type |-> coinType, timestamp |-> now]>>

\* the lastCoin field of the GET /api/arduino-status answer
statusLastCoin ==
  IF lastCoinDetected = <<>> THEN <<>>
  ELSE LET lastCoin == lastCoinDetected[1]
           claimedCoin == lookup(claimedCoins, JSNum(lastCoin.timestamp),
                                 lastCoin.value)
       IN IF claimedCoin # NotClaimed
          THEN <<[value |-> lastCoin.value, type |-> lastCoin.type,
                  timestamp |-> lastCoin.timestamp,
                  sessionId |-> claimedCoin.sessionId, isClaimed |-> TRUE]>>
          ELSE <<[value |-> lastCoin.value, type |-> lastCoin.type,
                  timestamp |-> lastCoin.timestamp,
                  sessionId |-> NULL, isClaimed |-> FALSE]>>

LedgerInit ==
  /\ claimedCoins = <<>>
  /\ lastCoinDetected = <<>>
  /\ sweepDue = Epoch + sweepInterval

\* ---- the device bridge (coinListener.js) ----
\* A pending continuation of the bridge: a setTimeout callback (delay is the
\* time left until it fires) or the completion of an I/O request (delay 0: it
\* may come at any time).  cands/index are the arguments the continuation
\* carries and port is the SerialPort object whose open() it answers.  The
\* bridge never reads the clock, so its timers are kept as the time left and
\* the passing of time shortens them (BridgeTick).
TimerKinds == {"startup", "reconnect", "reset", "setPort", "nextPort",
               "pulse", "boot"}
IoKinds == {"list", "open"}

Task(kind, delay, cands, index, p) ==
  [kind |-> kind, delay |-> delay, cands |-> cands, index |-> index,
   port |-> p]

\* The fields of the CoinListener singleton, the SerialPort objects it has
\* created (ports: id -> path and state), its pending continuations, the
\* "last coin" slot its observer writes, and the outputs of the callback that
\* is running: what it wrote to the link and which observers it invoked.
Br ==
  [isConnected |-> isConnected, reconnectAttempts |-> reconnectAttempts,
   port |-> port, ports |-> ports, tasks |-> tasks,
   coinCallbacks |-> coinCallbacks, lastCoinDetected |-> lastCoinDetected,
   written |-> <<>>, invoked |-> <<>>, failedAttempts |-> failedAttempts]

CommitBr(b) ==
  /\ isConnected' = b.isConnected
  /\ reconnectAttempts' = b.reconnectAttempts
  /\ port' = b.port
  /\ ports' = b.ports
  /\ tasks' = b.tasks
  /\ coinCallbacks' = b.coinCallbacks
  /\ lastCoinDetected' = b.lastCoinDetected
  /\ written' = b.written
  /\ invoked' = b.invoked
  /\ failedAttempts' = b.failedAttempts

schedule(b, t) == [b EXCEPT !.tasks = @ (+) SetToBag({t})]
finished(b, t) == [b EXCEPT !.tasks = @ (-) SetToBag({t})]

\* failedAttempts is a history variable, not a field of the code: the number
\* of connection attempts that have failed in a row since the last successful
\* open or reset request, counted up to FailuresCounted
attemptFailed(b) ==
  [b EXCEPT !.failedAttempts = IF @ < FailuresCounted THEN @ + 1 ELSE @]

init(b) == schedule(b, Task("startup", startupDelay, <<>>, 0, NULL))

\* an error handler that never gives up
handleConnectionError_NoCap(b) ==
  schedule([b EXCEPT !.isConnected = FALSE, !.reconnectAttempts = @ + 1],
           Task("reconnect", reconnectDelay, <<>>, 0, NULL))

\* an error handler that gives up one attempt later
handleConnectionError_OneMore(b) ==
  LET c == [b EXCEPT !.isConnected = FALSE] IN
  IF c.reconnectAttempts <= maxReconnectAttempts
  THEN schedule([c EXCEPT !.reconnectAttempts = @ + 1],
                Task("reconnect", reconnectDelay, <<>>, 0, NULL))
  ELSE c

handleConnectionError(b) ==
  LET c == [b EXCEPT !.isConnected = FALSE] IN
  IF c.reconnectAttempts < maxReconnectAttempts
  THEN schedule([c EXCEPT !.reconnectAttempts = @ + 1],
                Task("reconnect", reconnectDelay, <<>>, 0, NULL))
  ELSE c

\* port.close() is asynchronous: the port stops being open at once and its
\* 'close' event comes later
cleanup(b) ==
  [b EXCEPT !.ports = IF b.port # NULL /\ b.ports[b.port].state = "open"
                      THEN [@ EXCEPT ![b.port].state = "closing"]
                      ELSE @,
            !.isConnected = FALSE]

\* a closed SerialPort object that the bridge no longer refers to is garbage
collect(b) ==
  [b EXCEPT !.ports = [i \in {j \in DOMAIN b.ports :
                                j = b.port \/ b.ports[j].state # "closed"}
                       |-> b.ports[i]]]

newPortId(b) ==
  CHOOSE i \in 1..(Cardinality(DOMAIN b.ports) + 1) :
    /\ i \notin DOMAIN b.ports
    /\ \A j \in 1..(i - 1) : j \in DOMAIN b.ports

\* the paths for which new SerialPort(...) raises an exception
Unconstructible == {"/dev/null"}

\* the catch block runs when the constructor raises, before this.port is
\* assigned
tryNextPort(b, comPorts, index) ==
  IF index >= Len(comPorts) THEN attemptFailed(handleConnectionError(b))
  ELSE IF comPorts[index + 1] \in Unconstructible
  THEN schedule(b, Task("nextPort", nextPortDelay, comPorts, index + 1, NULL))
  ELSE LET portPath == comPorts[index + 1]
           id == newPortId(b)
           c == collect([b EXCEPT !.port = id,
                                  !.ports = With(@, id, [path |-> portPath,
                                                         state |-> "opening"])])
       IN schedule(c, Task("open", 0, comPorts, index, id))

\* pth.startsWith('/dev/ttyACM') || pth.startsWith('/dev/ttyUSB') on the
\* paths the model lists
IsCandidatePath(pth) == pth \in {"/dev/ttyACM0", "/dev/ttyUSB0"}

connectToArduino(b) ==
  IF config.SERIAL_PORT # ""
  THEN tryNextPort(b, <<config.SERIAL_PORT>>, 0)
  ELSE IF config.platform = "win32"
  THEN tryNextPort(b, <<"COM3">>, 0)
  ELSE schedule(b, Task("list", 0, <<>>, 0, NULL))

\* this.port.write(command + '\n')
sendCommand(b, command) ==
  IF b.isConnected /\ b.port # NULL
  THEN [b EXCEPT !.written = Append(@, [port |-> b.port,
                                        data |-> <<command, "\n">>])]
  ELSE b

\* ---- lines from the device ----
\* A line is the sequence of its characters.
Whitespace == {" ", "\t", "\r", "\n"}

RECURSIVE trimStart(_)
trimStart(str) ==
  IF str # <<>> /\ Head(str) \in Whitespace THEN trimStart(Tail(str)) ELSE str

RECURSIVE trimEnd(_)
trimEnd(str) ==
  IF str # <<>> /\ str[Len(str)] \in Whitespace
  THEN trimEnd(SubSeq(str, 1, Len(str) - 1)) ELSE str

trim(str) == trimEnd(trimStart(str))

startsWith(str, prefix) ==
  Len(str) >= Len(prefix) /\ SubSeq(str, 1, Len(prefix)) = prefix

substring(str, start) == SubSeq(str, start + 1, Len(str))

\* the keys of the coinValues object literal
Denominations ==
  {<<"1">>, <<"5">>, <<"1", "0">>, <<"2", "0">>}

\* names every plain object inherits from Object.prototype as functions
ObjectPrototypeKeys ==
  {<<"c", "o", "n", "s", "t", "r", "u", "c", "t", "o", "r">>,
   <<"v", "a", "l", "u", "e", "O", "f">>}

\* this.coinValues[coinType]: a property read on a plain object
coinValues(coinType) ==
  IF coinType = <<"1">> THEN JSNum(1)
  ELSE IF coinType = <<"5">> THEN JSNum(5)
  ELSE IF coinType = <<"1", "0">> THEN JSNum(10)
  ELSE IF coinType = <<"2", "0">> THEN JSNum(20)
  ELSE IF coinType \in ObjectPrototypeKeys THEN JSFunction
  ELSE JSUndefined

\* What a registered observer does when called.  "server" is the callback
\* server.js registers: it stores the coin as the last coin and returns (its
\* database write is fire-and-forget); "faulty" raises an exception.
Observers == {"server", "faulty"}

callObserver(b, o, coinValue, coinType) ==
  LET called == [b EXCEPT !.invoked = Append(@, [observer |-> o,
                                                 value |-> coinValue,
                                                 type |-> coinType])]
  IN IF o = "server"
     THEN [called EXCEPT !.lastCoinDetected = serverCoinCallback(coinValue, coinType)]
     ELSE called

\* a delivery that stops at the first observer that raises
RECURSIVE forEach_StopOnThrow(_, _, _, _, _)
forEach_StopOnThrow(b, k, len, coinValue, coinType) ==
  IF k >= len THEN b
  ELSE IF k >= Len(b.coinCallbacks) THEN b
  ELSE LET o == b.coinCallbacks[k + 1]
           c == callObserver(b, o, coinValue, coinType)
       IN IF o = "faulty" THEN c
          ELSE forEach_StopOnThrow(c, k + 1, len, coinValue, coinType)

\* this.coinCallbacks.forEach(callback => { try {...} catch {...} }): the
\* indices 0..len-1 of the array as it is when each one is visited
RECURSIVE forEach(_, _, _, _, _)
forEach(b, k, len, coinValue, coinType) ==
  IF k >= len THEN b
  ELSE IF k >= Len(b.coinCallbacks)
  THEN forEach(b, k + 1, len, coinValue, coinType)
  ELSE forEach(callObserver(b, b.coinCallbacks[k + 1], coinValue, coinType),
               k + 1, len, coinValue, coinType)

handleCoinDetection(b, coinType) ==
  LET coinValue == coinValues(coinType)
  IN IF truthy(coinValue)
     THEN forEach(b, 0, Len(b.coinCallbacks), coinValue, coinType)
     ELSE b

COIN == <<"C", "O", "I", "N", ":">>

\* the other branches (STATUS:, ERROR:, READY, unknown) only log
handleArduinoData(b, data) ==
  IF startsWith(data, COIN)
  THEN handleCoinDetection(b, trim(substring(data, 5)))
  ELSE b

onCoinDetected(b, callback) ==
  [b EXCEPT !.coinCallbacks = Append(@, callback)]

removeCallback(b, callback) ==
  LET index == indexOf(b.coinCallbacks, callback)
  IN IF index > -1
     THEN [b EXCEPT !.coinCallbacks = splice(@, index)]
     ELSE b

setComPort(b, portPath) ==
  schedule(IF b.isConnected THEN cleanup(b) ELSE b,
           Task("setPort", setPortDelay, <<portPath>>, 0, NULL))

\* the state after the module is loaded: the constructor has called init()
\* and server.js has registered its observer
DefaultConfig == [SERIAL_PORT |-> "", platform |-> "linux"]

BridgeInit ==
  /\ config = DefaultConfig
  /\ isConnected = FALSE
  /\ reconnectAttempts = 0
  /\ port = NULL
  /\ ports = <<>>
  /\ tasks = SetToBag({Task("startup", startupDelay, <<>>, 0, NULL)})
  /\ coinCallbacks = <<"server">>
  /\ written = <<>>
  /\ invoked = <<>>
  /\ failedAttempts = 0

\* ---- initial state: the constructor, no request served yet ----
Init ==
  /\ queue = <<>>
  /\ activeSession = NULL
  /\ sessions = <<>>
  /\ lastActivityTime = <<>>
  /\ timers = {}
  /\ printing = [s \in AllIds \cup {NULL} |-> 0]
  /\ now = Epoch
  /\ LedgerInit
  /\ BridgeInit

\* ---- actions ----
\* POST /api/queue/join; the response body is JoinResponse.  A file name
\* stands for the client's fileName and pageCount.
FileInfoAt(f) == [fileName |-> f, timestamp |-> now]

JoinResponse(s, f) == joinQueue(Cur, s, FileInfoAt(f)).ret

\* a join that switches the coin acceptor on
JoinQueue_EnablesCoins(s, f) ==
  /\ Commit(joinQueue(Cur, s, FileInfoAt(f)).q)
  /\ isConnected' = isConnected
  /\ written' = IF isConnected /\ port # NULL
                THEN <<[port |-> port, data |-> <<"ENABLE_COINS", "\n">>]>>
                ELSE written
  /\ UNCHANGED <<printing, now, ledgerVars, config, reconnectAttempts, port,
                 ports, tasks, coinCallbacks, invoked, failedAttempts>>

JoinQueue(s, f) ==
  /\ Commit(joinQueue(Cur, s, FileInfoAt(f)).q)
  /\ UNCHANGED <<printing, now, ledgerVars, bridgeVars>>

\* GET /api/queue/status/:sessionId; the response body is getQueueStatus
GetStatus(s) ==
  /\ getQueueStatus(Cur, s).exists \in BOOLEAN
  /\ UNCHANGED vars

\* GET /api/queue/info; the response body is getQueueInfo
GetInfo ==
  /\ getQueueInfo(Cur).queueLength >= 0
  /\ UNCHANGED vars

\* POST /api/queue/heartbeat
Heartbeat(s) ==
  /\ Commit(updateActivity(Cur, s))
  /\ UNCHANGED <<printing, now, ledgerVars, bridgeVars>>

\* POST /api/queue/leave
Leave(s) ==
  /\ Commit(removeSession(Cur, s, TRUE))
  /\ UNCHANGED <<printing, now, ledgerVars, bridgeVars>>

\* the response bodies of the three handlers above, without the success
\* flag that every 200 answer carries
StatusResponse(s) == getQueueStatus(Cur, s)

HeartbeatResponse(s) == getQueueStatus(updateActivity(Cur, s), s)

LeaveResponse(s) == [message |-> "Left the queue successfully"]

\* a setTimeout callback armed by an activation or by a previous check fires
TimeoutFires(t) ==
  /\ t \in timers
  /\ t.due <= now
  /\ Commit(checkSessionTimeout([Cur EXCEPT !.timers = @ \ {t}], t.sessionId))
  /\ UNCHANGED <<printing, now, ledgerVars, bridgeVars>>

\* the number of POST /api/print requests suspended at await printFile(...)
RECURSIVE SumOver(_, _)
SumOver(f, S) ==
  IF S = {} THEN 0
  ELSE LET x == CHOOSE y \in S : TRUE IN f[x] + SumOver(f, S \ {x})

InFlight == SumOver(printing, AllIds \cup {NULL})

\* POST /api/print carrying sessionId s (NULL: the field is missing), up to
\* its first await: the admission check, which is made only if (sessionId); a
\* request that fails it is answered 403 and ends there
PrintBegin(s) ==
  /\ InFlight < MaxInFlight
  /\ printing' = IF s = NULL \/ canProceedToPayment(Cur, s)
                 THEN [printing EXCEPT ![s] = @ + 1]
                 ELSE printing
  /\ UNCHANGED <<queue, activeSession, sessions, lastActivityTime,
                 timers, now, ledgerVars, bridgeVars>>

\* POST /api/print after await printFile(...): completion or failure
PrintEnd(s, ok) ==
  /\ printing[s] > 0
  /\ printing' = [printing EXCEPT ![s] = @ - 1]
  /\ IF ok /\ s # NULL
     THEN Commit(completeSession(Cur, s))
     ELSE UNCHANGED <<queue, activeSession, sessions, lastActivityTime,
                      timers>>
  /\ UNCHANGED <<now, ledgerVars, bridgeVars>>

\* the clock advances; a due timer callback runs before time moves on
Tick(d, horizon) ==
  /\ now + d <= horizon
  /\ \A t \in timers : now + d <= t.due
  /\ now' = now + d
  /\ UNCHANGED <<queue, activeSession, sessions, lastActivityTime,
                 timers, printing, ledgerVars, bridgeVars>>

Next ==
  \/ \E s \in SessionIds, f \in FileNames : JoinQueue(s, f)
  \/ \E s \in SessionIds : GetStatus(s)
  \/ GetInfo
  \/ \E s \in SessionIds : Heartbeat(s)
  \/ \E s \in SessionIds : Leave(s)
  \/ \E t \in timers : TimeoutFires(t)
  \/ \E s \in SessionIds : PrintBegin(s)
  \/ \E s \in SessionIds, ok \in BOOLEAN : PrintEnd(s, ok)
  \/ \E d \in TimeSteps : Tick(d, MaxTime)

Spec == Init /\ [][Next]_vars

\* The same program over a long horizon: the clock moves a whole timeout
\* window at a time, far enough for waiting sessions to pass maxWaitTime.
NextLong ==
  \/ \E s \in SessionIds, f \in FileNames : JoinQueue(s, f)
  \/ \E s \in SessionIds : GetStatus(s)
  \/ \E s \in SessionIds : Heartbeat(s)
  \/ \E s \in SessionIds : Leave(s)
  \/ \E t \in timers : TimeoutFires(t)
  \/ \E s \in SessionIds : PrintBegin(s)
  \/ \E s \in SessionIds, ok \in BOOLEAN : PrintEnd(s, ok)
  \/ \E d \in LongTimeSteps : Tick(d, MaxTimeLong)

SpecLong == Init /\ [][NextLong]_vars

\* The long horizon at the fine clock step, with two clients.
NextFine ==
  \/ \E s \in FineIds, f \in FileNames : JoinQueue(s, f)
  \/ \E s \in FineIds : GetStatus(s)
  \/ \E s \in FineIds : Heartbeat(s)
  \/ \E s \in FineIds : Leave(s)
  \/ \E t \in timers : TimeoutFires(t)
  \/ \E s \in FineIds : PrintBegin(s)
  \/ \E s \in FineIds, ok \in BOOLEAN : PrintEnd(s, ok)
  \/ \E d \in TimeSteps : Tick(d, MaxTimeLong)

SpecFine == Init /\ [][NextFine]_vars

\* Waiting while nobody leaves or prints: two clients join, poll and send
\* heartbeats for a little over twice the maximum wait.
NextWait ==
  \/ \E s \in FineIds, f \in FileNames : JoinQueue(s, f)
  \/ \E s \in FineIds : GetStatus(s)
  \/ \E s \in FineIds : Heartbeat(s)
  \/ \E t \in timers : TimeoutFires(t)
  \/ \E d \in LongTimeSteps : Tick(d, MaxTimeWait)

SpecWait == Init /\ [][NextWait]_vars

\* The waiting sweep at its boundary: the clock moves in steps that divide
\* both the session timeout and the maximum wait, so that a waiting session
\* can be exactly maxWaitTime old when the slot is freed.  The active
\* session has to send heartbeats for the others to grow that old.
SweepStep == 30000

\* the clients of this scenario arrive within the first clock step
NextSweep ==
  \/ \E s \in SessionIds, f \in FileNames :
        now <= Epoch + SweepStep /\ JoinQueue(s, f)
  \/ \E s \in SessionIds : Heartbeat(s)
  \/ \E s \in SessionIds : Leave(s)
  \/ \E t \in timers : TimeoutFires(t)
  \/ Tick(SweepStep, MaxTimeLong)

SpecSweep == Init /\ [][NextSweep]_vars

\* The same program with enough clients to fill the queue.  Every new
\* client joins under the next id above those in the system, waits its turn
\* and leaves or prints only once active; the clock stands still.
FreshId(s) ==
  /\ \A x \in DOMAIN sessions : x < s
  /\ \A y \in CapIds : (\A x \in DOMAIN sessions : x < y) => s <= y

NextCap ==
  \/ \E s \in CapIds, f \in FileNames :
        (s \in DOMAIN sessions \/ FreshId(s)) /\ JoinQueue(s, f)
  \/ \E s \in CapIds : s = activeSession /\ Leave(s)
  \/ \E s \in CapIds : PrintBegin(s)
  \/ \E s \in CapIds, ok \in BOOLEAN : PrintEnd(s, ok)

SpecCap == Init /\ [][NextCap]_vars

\* ---- the ledger's actions ----
\* POST /api/claim-coin with the body {timestamp, value, sessionId}; a
\* missing field is 0 (NULL for the session id)
ClaimCoin(timestamp, value, sessionId) ==
  /\ claimedCoins' = claimCoin(claimedCoins, timestamp, value, sessionId)
  /\ UNCHANGED <<queueVars, now, lastCoinDetected, sweepDue, bridgeVars>>

\* the bridge reports a coin to the observer of server.js
ServerCoinCallback(coinValue, coinType) ==
  /\ lastCoinDetected' = serverCoinCallback(coinValue, coinType)
  /\ UNCHANGED <<queueVars, now, claimedCoins, sweepDue, bridgeVars>>

\* GET /api/arduino-status; the lastCoin field of the answer is statusLastCoin
ArduinoStatus ==
  /\ Len(statusLastCoin) <= 1
  /\ UNCHANGED vars

\* the setInterval callback of the ledger, every sweepInterval
SweepFires ==
  /\ sweepDue <= now
  /\ claimedCoins' = sweep(claimedCoins)
  /\ sweepDue' = sweepDue + sweepInterval
  /\ UNCHANGED <<queueVars, now, lastCoinDetected, bridgeVars>>

\* the timestamps a client can send: none, or that of a coin it saw reported
ClaimTimestamps ==
  {JSNum(0)}
    \cup {JSNum(lastCoinDetected[i].timestamp) : i \in 1..Len(lastCoinDetected)}

ClaimValues == {JSNum(0), JSNum(5)}

\* Payment: the queue, the print requests and the ledger with two clients
\* and a third id that never joins; the clock stands still.
PayIds == FineIds \cup {3}

NextPay ==
  \/ \E s \in FineIds, f \in FileNames : JoinQueue(s, f)
  \/ \E s \in FineIds : Leave(s)
  \/ \E s \in FineIds \cup {NULL} : PrintBegin(s)
  \/ \E s \in FineIds \cup {NULL}, ok \in BOOLEAN : PrintEnd(s, ok)
  \/ ServerCoinCallback(JSNum(5), <<"5">>)
  \/ \E t \in ClaimTimestamps, v \in ClaimValues, s \in PayIds \cup {NULL} :
        ClaimCoin(t, v, s)
  \/ ArduinoStatus

SpecPay == Init /\ [][NextPay]_vars

\* The ledger over time: coins are reported and claimed, the status is
\* polled, the clock advances in half sweep intervals and the sweep runs
\* whenever it is due.  At most MaxClaims entries are held at a time.
LedgerTick(d) ==
  /\ now + d <= MaxTimeLedger
  /\ now + d <= sweepDue
  /\ now' = now + d
  /\ UNCHANGED <<queueVars, ledgerVars, bridgeVars>>

NextLedger ==
  \/ ServerCoinCallback(JSNum(5), <<"5">>)
  \/ \E t \in ClaimTimestamps, v \in ClaimValues, s \in FineIds \cup {NULL} :
        /\ Cardinality(DOMAIN claimCoin(claimedCoins, t, v, s)) <= MaxClaims
        /\ ClaimCoin(t, v, s)
  \/ ArduinoStatus
  \/ SweepFires
  \/ LedgerTick(LedgerStep)

SpecLedger == Init /\ [][NextLedger]_vars

\* Claims with arbitrary request bodies: the timestamp and the value of a
\* claim are whatever JSON the client sends, a number or a string; the
\* clock stands still.
BodyTimestamps ==
  ClaimTimestamps \cup {JSNum(1), JSStr(<<"1", "_", "2">>)}

BodyValues == {JSNum(0), JSNum(3), JSStr(<<"2", "_", "3">>)}

NextClaims ==
  \/ ServerCoinCallback(JSNum(5), <<"5">>)
  \/ \E t \in BodyTimestamps, v \in BodyValues, s \in FineIds \cup {NULL} :
        ClaimCoin(t, v, s)
  \/ ArduinoStatus

SpecClaims == Init /\ [][NextClaims]_vars

\* ---- the bridge's actions ----
bridgeFrame == UNCHANGED <<queueVars, now, claimedCoins, sweepDue, config>>

Pending(kinds) == {t \in BagToSet(tasks) : t.kind \in kinds}
PortsIn(states) == {p \in DOMAIN ports : ports[p].state \in states}
\* the model admits a new request or link fault only while fewer than
\* MaxPending continuations are pending
Room == BagCardinality(tasks) < MaxPending

\* the startup timer of init() or the backoff timer of handleConnectionError
ConnectTimerFires(t) ==
  /\ t \in Pending({"startup", "reconnect"})
  /\ t.delay = 0
  /\ CommitBr(connectToArduino(finished(Br, t)))
  /\ bridgeFrame

\* SerialPort.list() settles: it rejects, or resolves with the listed paths
ListSettles(t, resolved, listing) ==
  /\ t \in Pending({"list"})
  /\ LET b == finished(Br, t)
         candidates == SelectSeq(listing, IsCandidatePath)
     IN CommitBr(IF ~resolved \/ Len(candidates) = 0
                 THEN attemptFailed(handleConnectionError(b))
                 ELSE tryNextPort(b, candidates, 0))
  /\ bridgeFrame

\* the callback of this.port.open; on success it starts the reset pulse
\* (the callbacks of port.set run as soon as it is called).  The ports are opened with an exclusive
\* lock, so an open succeeds only on a path no other open port object holds.
Held(path) == \E p \in PortsIn({"open", "closing"}) : ports[p].path = path

OpenSettles(t, opened) ==
  /\ t \in Pending({"open"})
  /\ opened => ~Held(ports[t.port].path)
  /\ LET b == finished(Br, t)
     IN CommitBr(
          IF opened
          THEN schedule([b EXCEPT !.ports[t.port].state = "open",
                                  !.isConnected = TRUE,
                                  !.reconnectAttempts = 0,
                                  !.failedAttempts = 0],
                        Task("pulse", dtrLowTime, <<>>, 0, NULL))
          ELSE attemptFailed(handleConnectionError(cleanup(collect(
                 [b EXCEPT !.ports[t.port].state = "closed"])))))
  /\ bridgeFrame

\* the end of the 500 ms with DTR low: DTR is raised and the device boots
PulseTimerFires(t) ==
  /\ t \in Pending({"pulse"})
  /\ t.delay = 0
  /\ CommitBr(schedule(finished(Br, t), Task("boot", bootWait, <<>>, 0, NULL)))
  /\ bridgeFrame

\* the handshake
BootTimerFires(t) ==
  /\ t \in Pending({"boot"})
  /\ t.delay = 0
  /\ CommitBr(sendCommand(finished(Br, t), "READY"))
  /\ bridgeFrame

\* the timer of the catch block of tryNextPort
NextPortTimerFires(t) ==
  /\ t \in Pending({"nextPort"})
  /\ t.delay = 0
  /\ CommitBr(tryNextPort(finished(Br, t), t.cands, t.index))
  /\ bridgeFrame

\* the timer of setComPort
SetPortTimerFires(t) ==
  /\ t \in Pending({"setPort"})
  /\ t.delay = 0
  /\ CommitBr(tryNextPort(finished(Br, t), t.cands, 0))
  /\ bridgeFrame

\* the timer of POST /api/arduino-reset
ResetTimerFires(t) ==
  /\ t \in Pending({"reset"})
  /\ t.delay = 0
  /\ CommitBr(init(finished(Br, t)))
  /\ bridgeFrame

\* port.on('close'): after port.close(), or when the device goes away
PortClose(p) ==
  /\ p \in PortsIn({"open", "closing"})
  /\ ports[p].state = "open" => Room
  /\ CommitBr(handleConnectionError(collect(
       [Br EXCEPT !.ports[p].state = "closed", !.isConnected = FALSE])))
  /\ bridgeFrame

\* port.on('error')
PortError(p) ==
  /\ p \in PortsIn({"open"})
  /\ Room
  /\ CommitBr(handleConnectionError([Br EXCEPT !.isConnected = FALSE]))
  /\ bridgeFrame

\* parser.on('data')
PortData(p, data) ==
  /\ p \in PortsIn({"open"})
  /\ CommitBr(handleArduinoData(Br, trim(data)))
  /\ bridgeFrame

\* POST /api/arduino-reset
ArduinoReset ==
  /\ Room
  /\ CommitBr(schedule(cleanup([Br EXCEPT !.failedAttempts = 0]),
                       Task("reset", resetDelay, <<>>, 0, NULL)))
  /\ bridgeFrame

\* POST /api/arduino-set-port
ArduinoSetPort(portPath) ==
  /\ Room
  /\ CommitBr(setComPort(Br, portPath))
  /\ bridgeFrame

\* the endpoints that pass a command to sendCommand
ArduinoCommand(command) ==
  /\ CommitBr(sendCommand(Br, command))
  /\ bridgeFrame

\* POST /api/arduino-test: testConnection
ArduinoTest ==
  /\ CommitBr(IF isConnected THEN sendCommand(Br, "TEST") ELSE Br)
  /\ bridgeFrame

Subscribe(callback) ==
  /\ Len(coinCallbacks) < MaxObservers
  /\ CommitBr(onCoinDetected(Br, callback))
  /\ bridgeFrame

Unsubscribe(callback) ==
  /\ CommitBr(removeCallback(Br, callback))
  /\ bridgeFrame

\* time passes until the next timer is due: every timer's delay shrinks by d
Elapse(t, d) ==
  IF t.kind \in TimerKinds THEN [t EXCEPT !.delay = @ - d] ELSE t

BridgeTick ==
  /\ Pending(TimerKinds) # {}
  /\ \A t \in Pending(TimerKinds) : t.delay > 0
  /\ \E t \in Pending(TimerKinds) :
       /\ \A u \in Pending(TimerKinds) : t.delay <= u.delay
       /\ tasks' = [u \in {Elapse(x, t.delay) : x \in BagToSet(tasks)} |->
                      tasks[CHOOSE x \in BagToSet(tasks) :
                              Elapse(x, t.delay) = u]]
  /\ UNCHANGED <<queueVars, now, ledgerVars, config, isConnected,
                 reconnectAttempts, port, ports, coinCallbacks, written,
                 invoked, failedAttempts>>

\* environments of the bridge: auto-detection on Linux, or SERIAL_PORT set
\* (on Windows without SERIAL_PORT the one candidate is COM3 instead)
Configs ==
  {DefaultConfig,
   [SERIAL_PORT |-> "/dev/ttyACM0", platform |-> "linux"]}

Listings ==
  {<<"/dev/ttyS0">>, <<"/dev/ttyS0", "/dev/ttyACM0", "/dev/ttyUSB0">>}

ManualPorts == {"/dev/ttyACM0", "/dev/null"}
Commands == {"ENABLE_COINS"}

Lines ==
  {<<"C", "O", "I", "N", ":", "1", "0">>,
   <<"C", "O", "I", "N", ":", " ", "5", " ">>,
   <<"C", "O", "I", "N", ":", "9", "9">>,
   <<"C", "O", "I", "N", ":", "v", "a", "l", "u", "e", "O", "f">>,
   <<"S", "T", "A", "T", "U", "S", ":", "o", "k">>,
   <<"R", "E", "A", "D", "Y">>}

InitBridge ==
  /\ queue = <<>>
  /\ activeSession = NULL
  /\ sessions = <<>>
  /\ lastActivityTime = <<>>
  /\ timers = {}
  /\ printing = [s \in AllIds \cup {NULL} |-> 0]
  /\ now = Epoch
  /\ LedgerInit
  /\ config \in Configs
  /\ isConnected = FALSE
  /\ reconnectAttempts = 0
  /\ port = NULL
  /\ ports = <<>>
  /\ tasks = SetToBag({Task("startup", startupDelay, <<>>, 0, NULL)})
  /\ coinCallbacks = <<"server">>
  /\ written = <<>>
  /\ invoked = <<>>
  /\ failedAttempts = 0

NextBridge ==
  \/ \E t \in BagToSet(tasks) : ConnectTimerFires(t)
  \/ \E t \in BagToSet(tasks), resolved \in BOOLEAN, listing \in Listings :
        ListSettles(t, resolved, listing)
  \/ \E t \in BagToSet(tasks), opened \in BOOLEAN : OpenSettles(t, opened)
  \/ \E t \in BagToSet(tasks) : PulseTimerFires(t)
  \/ \E t \in BagToSet(tasks) : BootTimerFires(t)
  \/ \E t \in BagToSet(tasks) : NextPortTimerFires(t)
  \/ \E t \in BagToSet(tasks) : SetPortTimerFires(t)
  \/ \E t \in BagToSet(tasks) : ResetTimerFires(t)
  \/ \E p \in DOMAIN ports : PortClose(p)
  \/ \E p \in DOMAIN ports : PortError(p)
  \/ ArduinoReset
  \/ \E portPath \in ManualPorts : ArduinoSetPort(portPath)
  \/ \E command \in Commands : ArduinoCommand(command)
  \/ ArduinoTest
  \/ BridgeTick

SpecBridge == InitBridge /\ [][NextBridge]_vars

\* The kiosk as a whole: two clients use the queue while the bridge connects
\* and the coin acceptor is switched on and off by its own requests.  The
\* queue's clock and the bridge's timers advance independently.
KioskCommands == {"ENABLE_COINS", "DISABLE_COINS"}

NextKiosk ==
  \/ \E s \in FineIds, f \in FileNames : JoinQueue(s, f)
  \/ \E s \in FineIds : Heartbeat(s)
  \/ \E s \in FineIds : Leave(s)
  \/ \E t \in timers : TimeoutFires(t)
  \/ \E s \in FineIds : PrintBegin(s)
  \/ \E s \in FineIds, ok \in BOOLEAN : PrintEnd(s, ok)
  \/ \E d \in LongTimeSteps : Tick(d, MaxTime)
  \/ \E t \in BagToSet(tasks) : ConnectTimerFires(t)
  \/ \E t \in BagToSet(tasks), resolved \in BOOLEAN, listing \in Listings :
        ListSettles(t, resolved, listing)
  \/ \E t \in BagToSet(tasks), opened \in BOOLEAN : OpenSettles(t, opened)
  \/ \E t \in BagToSet(tasks) : PulseTimerFires(t)
  \/ \E t \in BagToSet(tasks) : BootTimerFires(t)
  \/ \E command \in KioskCommands : ArduinoCommand(command)
  \/ BridgeTick

SpecKiosk == Init /\ [][NextKiosk]_vars

\* Coin delivery: the bridge connects, lines arrive on the open port and
\* observers come and go; nobody resets the bridge or changes its port.
NextCoin ==
  \/ \E t \in BagToSet(tasks) : ConnectTimerFires(t)
  \/ \E t \in BagToSet(tasks), resolved \in BOOLEAN, listing \in Listings :
        ListSettles(t, resolved, listing)
  \/ \E t \in BagToSet(tasks), opened \in BOOLEAN : OpenSettles(t, opened)
  \/ \E t \in BagToSet(tasks) : PulseTimerFires(t)
  \/ \E t \in BagToSet(tasks) : BootTimerFires(t)
  \/ \E p \in DOMAIN ports : PortClose(p)
  \/ \E p \in DOMAIN ports, data \in Lines : PortData(p, data)
  \/ \E callback \in Observers : Subscribe(callback)
  \/ \E callback \in Observers : Unsubscribe(callback)
  \/ BridgeTick

SpecCoin == InitBridge /\ [][NextCoin]_vars

\* ---- vocabulary of the properties ----
Known == DOMAIN sessions
Waiting(s) == includes(queue, s)
ActiveStatus == {s \in Known : sessions[s].status = "active"}
WaitExpired(s) == (now - sessions[s].joinedAt) > maxWaitTime
IsLive(s) == ~WaitExpired(s)
LiveQueue == SelectSeq(queue, IsLive)
Promoted(s) == s = activeSession /\ sessions[s].activatedAt > sessions[s].joinedAt
\* the step removes the session that holds the slot
ActiveRemoved == activeSession # NULL /\ activeSession \notin DOMAIN sessions'
IdleFor(s) == now - lastActivityTime[s]
\* what a status query answers right after the step
StatusAfter(s) == getQueueStatus(Cur, s)'

\* C1: in every reachable state at most one session has status active, and
\* the sessions with status active are exactly the one in the active slot.
C1_SingleActive ==
  /\ Cardinality(ActiveStatus) <= 1
  /\ ActiveStatus = IF activeSession = NULL THEN {} ELSE {activeSession}

C1_Witness ==
  /\ activeSession # NULL
  /\ Promoted(activeSession)
  /\ Len(queue) >= 1
  /\ now > Epoch + maxWaitTime

\* C2: the waiting sequence never holds the active session id and never
\* holds an id twice.
C2_QueueDisjointNoDup ==
  /\ ~Waiting(activeSession)
  /\ \A i, j \in 1..Len(queue) : queue[i] = queue[j] => i = j

C2_Witness ==
  /\ activeSession # NULL
  /\ Promoted(activeSession)
  /\ Len(queue) = 2

\* C3: promotion is FIFO: when a waiting session B becomes active, no session
\* that was enqueued strictly before B is still waiting afterwards.
C3_Fifo ==
  [][\A a, b \in SessionIds :
       (/\ Waiting(a) /\ Waiting(b)
        /\ sessions[a].joinedAt < sessions[b].joinedAt
        /\ activeSession' = b)
       => ~Waiting(a)']_vars

C3_Witness ==
  /\ activeSession # NULL
  /\ Promoted(activeSession)
  /\ \E b \in SessionIds :
       Waiting(b) /\ sessions[b].joinedAt > sessions[activeSession].joinedAt
                  /\ sessions[b].joinedAt < sessions[activeSession].activatedAt

\* C4: with a session active and MAX_QUEUE_SIZE sessions waiting, a join of
\* a new id answers QueueFull and changes nothing; with no session active a
\* join never answers QueueFull.
C4_QueueFull ==
  \A s \in CapIds, f \in FileNames :
    /\ (s \notin Known /\ activeSession # NULL /\ Len(queue) = MAX_QUEUE_SIZE)
       => /\ JoinResponse(s, f) = QueueFullResult
          /\ joinQueue(Cur, s, FileInfoAt(f)).q = Cur
    /\ activeSession = NULL => ~JoinResponse(s, f).queueFull

C4_Witness ==
  /\ activeSession # NULL
  /\ Len(queue) = MAX_QUEUE_SIZE
  /\ \E s \in CapIds : FreshId(s)

\* C5: the waiting sequence never holds more than MAX_QUEUE_SIZE entries,
\* so the queue never tracks more than MAX_QUEUE_SIZE + 1 sessions.
C5_Bounded ==
  /\ Len(queue) <= MAX_QUEUE_SIZE
  /\ Cardinality(Known) <= MAX_QUEUE_SIZE + 1

C5_Witness ==
  /\ Len(queue) = MAX_QUEUE_SIZE
  /\ Cardinality(Known) = MAX_QUEUE_SIZE + 1
  /\ \E s \in CapIds : FreshId(s)

\* C6 as stated: when the timeout of the active session fires after 90 s of
\* inactivity and the waiting sequence is non-empty, the session is removed
\* and one of the waiting sessions is active after the same step.
C6_Original ==
  [][\A t \in timers :
       (/\ TimeoutFires(t)
        /\ t.sessionId = activeSession
        /\ IdleFor(activeSession) >= sessionTimeout
        /\ queue # <<>>)
       => /\ activeSession \notin DOMAIN sessions'
          /\ activeSession' # NULL
          /\ Waiting(activeSession')]_vars

\* C6 (amended): an active session idle for 90 s has its timeout check due;
\* the check removes it and, in the same step, removes the waiting sessions
\* older than maxWaitTime and makes the first remaining one active, so the
\* slot is never free while the waiting sequence is non-empty.
C6_TimeoutAdvances ==
  [][/\ (activeSession # NULL /\ IdleFor(activeSession) >= sessionTimeout)
        => \E t \in timers : t.sessionId = activeSession /\ t.due <= now
     /\ \A t \in timers :
          (/\ TimeoutFires(t)
           /\ t.sessionId = activeSession
           /\ IdleFor(activeSession) >= sessionTimeout)
          => /\ activeSession \notin DOMAIN sessions'
             /\ IF LiveQueue # <<>>
                THEN /\ activeSession' = Head(LiveQueue)
                     /\ queue' = Tail(LiveQueue)
                     /\ sessions'[Head(LiveQueue)].status = "active"
                ELSE /\ activeSession' = NULL
                     /\ queue' = <<>>
     /\ (activeSession' = NULL => queue' = <<>>)]_vars

C6_Witness ==
  /\ activeSession # NULL
  /\ IdleFor(activeSession) >= sessionTimeout
  /\ Len(queue) = 2
  /\ WaitExpired(queue[1])
  /\ IsLive(queue[2])

\* C7 as stated: a timeout firing removes a session only if that session is
\* the active session and 90 s have passed since its last recorded activity.
C7_Original ==
  [][\A t \in timers :
       TimeoutFires(t)
       => \A s \in Known \ DOMAIN sessions' :
            s = activeSession /\ IdleFor(s) >= sessionTimeout]_vars

\* C7 (amended): a timeout firing changes the queue only if its timer's
\* session is the active session and 90 s have passed since that session's
\* last recorded activity; it then removes that session, and any other
\* session it removes is a waiting session older than maxWaitTime.
C7_NoPrematureTimeout ==
  [][\A t \in timers :
       TimeoutFires(t)
       => LET due == /\ t.sessionId = activeSession
                     /\ IdleFor(activeSession) >= sessionTimeout
          IN /\ ~due => UNCHANGED <<queue, activeSession, sessions,
                                    lastActivityTime>>
             /\ \A s \in Known \ DOMAIN sessions' :
                  \/ s = activeSession
                  \/ sessions[s].status = "waiting" /\ WaitExpired(s)]_vars

\* a timer of an earlier activation comes due on a re-joined active session
C7_Witness ==
  /\ activeSession # NULL
  /\ lastActivityTime[activeSession] = sessions[activeSession].activatedAt
  /\ \E t \in timers :
       /\ t.sessionId = activeSession
       /\ t.due = now
       /\ IdleFor(activeSession) > 0
       /\ IdleFor(activeSession) < sessionTimeout

\* C8: a join with an id already in the system answers that session's
\* current status and changes nothing: no second entry, same fileInfo,
\* joinedAt and position.
C8_JoinIdempotent ==
  \A s \in Known, f \in FileNames :
    /\ JoinResponse(s, f) = getQueueStatus(Cur, s)
    /\ joinQueue(Cur, s, FileInfoAt(f)).q = Cur

C8_Witness ==
  /\ activeSession # NULL
  /\ sessions[activeSession].fileInfo.timestamp < now
  /\ \E s \in SessionIds : Waiting(s) /\ sessions[s].fileInfo.timestamp < now

\* C9 as stated: when the active session is removed while the waiting
\* sequence is non-empty, the head of the waiting sequence becomes active and
\* the rest of the sequence follows in order, each one position lower.
C9_Original ==
  [][(ActiveRemoved /\ queue # <<>>)
     => /\ activeSession' = Head(queue)
        /\ queue' = Tail(queue)]_vars

\* C9 (amended): when the active session is removed, the waiting sessions
\* older than maxWaitTime are removed with it; the first remaining waiting
\* session becomes active (status active, position 0) and the others keep
\* their order, each at its rank among the remaining ones minus one.
C9_PromoteHead ==
  [][ActiveRemoved
     => IF LiveQueue # <<>>
        THEN /\ \A s \in SessionIds, i \in 1..Len(LiveQueue) :
                  LiveQueue[i] = s
                  => IF i = 1
                     THEN /\ activeSession' = s
                          /\ StatusAfter(s).status = "active"
                          /\ StatusAfter(s).position = 0
                     ELSE /\ StatusAfter(s).status = "waiting"
                          /\ StatusAfter(s).position = i - 1
             /\ Len(queue') = Len(LiveQueue) - 1
        ELSE activeSession' = NULL /\ queue' = <<>>]_vars

\* a completion is pending for the active session while the head of the
\* waiting sequence has outlived maxWaitTime and the next one has not
C9_Witness ==
  /\ activeSession # NULL
  /\ printing[activeSession] > 0
  /\ Len(queue) = 2
  /\ WaitExpired(queue[1])
  /\ IsLive(queue[2])

\* C10: canProceedToPayment holds for a session id exactly when it is the
\* active session, so it fails for every waiting or unknown id, and a print
\* request carrying such an id changes no state.
C10_AdmissionCheck ==
  /\ [](\A s \in SessionIds :
         /\ canProceedToPayment(Cur, s)
              <=> (s \in Known /\ sessions[s].status = "active" /\ ~Waiting(s))
         /\ (s \notin Known \/ Waiting(s)) => ~canProceedToPayment(Cur, s))
  /\ [][\A s \in SessionIds :
          ((s \notin Known \/ Waiting(s)) /\ PrintBegin(s)) => UNCHANGED vars]_vars

C10_Witness ==
  /\ activeSession # NULL
  /\ queue # <<>>
  /\ Known # SessionIds
  /\ InFlight = 0

\* a print request carrying s passes the gate and goes on to the printer
Honoured(s) == PrintBegin(s) /\ printing'[s] = printing[s] + 1
\* the ledger binds some coin to session s
HasClaim(s) == \E k \in DOMAIN claimedCoins : claimedCoins[k].sessionId = s

\* C11: a print request is honoured only if the queue says its session is
\* the active one and the ledger holds a coin claimed by that session.
C11_BothChecks ==
  [][\A s \in FineIds \cup {NULL} :
       Honoured(s) => /\ s # NULL
                      /\ canProceedToPayment(Cur, s)
                      /\ HasClaim(s)]_vars

\* C12: a claim whose session id is not the active session (waiting or
\* unknown) is not accepted and leaves the ledger unchanged.
C12_ActiveOnly ==
  [][\A t \in ClaimTimestamps, v \in ClaimValues, s \in PayIds :
       (ClaimCoin(t, v, s) /\ ~canProceedToPayment(Cur, s))
       => claimedCoins' = claimedCoins]_vars

\* ---------------------------------------------------------------------
\* Device Bridge: the reconnection budget
\* ---------------------------------------------------------------------

\* the step schedules no reconnection timer
NumPending(bag, kinds) ==
  BagCardinality([t \in {x \in BagToSet(bag) : x.kind \in kinds} |-> bag[t]])

NoReconnectAdded ==
  NumPending(tasks', {"reconnect"}) <= NumPending(tasks, {"reconnect"})

\* the attempt cap is reached and nothing is pending
PermanentFailed ==
  /\ reconnectAttempts = maxReconnectAttempts
  /\ tasks = EmptyBag

\* C13 as stated: the step in which the fifth consecutive connection attempt
\* fails schedules no further reconnection attempt.
C13_FiveFailures ==
  [][(failedAttempts = maxReconnectAttempts - 1
      /\ failedAttempts' = maxReconnectAttempts) => NoReconnectAdded]_vars

\* C13 amended: the bridge gives up after the first attempt and five
\* reconnection attempts have failed, six failed attempts in a row: from then
\* on reconnectAttempts is 5, while it is 5 no failure and no link fault
\* schedules a reconnection, and once nothing is pending nothing is started
\* until a reset request or a manual port change.
C13_StopsAtCap ==
  [][/\ failedAttempts' > maxReconnectAttempts
          => reconnectAttempts' = maxReconnectAttempts
     /\ reconnectAttempts = maxReconnectAttempts => NoReconnectAdded
     /\ PermanentFailed
          => \/ PermanentFailed'
             \/ ArduinoReset
             \/ \E portPath \in ManualPorts : ArduinoSetPort(portPath)]_vars

\* the sixth attempt in a row has failed and the bridge has given up
C13_Witness ==
  /\ PermanentFailed
  /\ failedAttempts > maxReconnectAttempts
  /\ ~isConnected

\* C14: when the discovery that a reset request restarts begins (the startup
\* timer of init() fires), the attempt counter is zero and no reconnection
\* backoff is pending.
C14_ResetRearms ==
  [][\A t \in Pending({"startup"}) :
       ConnectTimerFires(t)
       => /\ reconnectAttempts = 0
          /\ NumPending(tasks, {"reconnect"}) = 0]_vars

\* the continuations of a discovery cycle or of a reconnection backoff
CycleKinds ==
  {"startup", "reconnect", "reset", "setPort", "nextPort", "list", "open"}

\* C15: at any time at most one discovery cycle or reconnection timer is
\* pending.
C15_OneCycle == NumPending(tasks, CycleKinds) <= 1

\* C16: when opening a candidate fails and the cycle has a further
\* candidate, the next candidate is the one tried next.
C16_NextCandidate ==
  [][\A t \in Pending({"open"}) :
       (OpenSettles(t, FALSE) /\ t.index + 1 < Len(t.cands))
       => \E u \in BagToSet(tasks') :
            /\ u.kind \in {"nextPort", "open"}
            /\ u.cands = t.cands
            /\ u.index = t.index + 1]_vars

\* ---------------------------------------------------------------------
\* Device Bridge: the outbound command interface
\* ---------------------------------------------------------------------

\* READY: the port is open, the reset pulse and the boot wait are over
Ready ==
  /\ isConnected
  /\ port # NULL
  /\ ports[port].state = "open"
  /\ NumPending(tasks, {"pulse", "boot"}) = 0

\* C17: a command is written to the link only while the bridge is READY.
C17_OnlyWhenReady ==
  [][\A command \in Commands :
       (ArduinoCommand(command) /\ written' # <<>>) => Ready]_vars

\* ---------------------------------------------------------------------
\* Device Bridge: coin lines and observers
\* ---------------------------------------------------------------------

\* the type a line announces: what follows "COIN:", trimmed
CoinTypeOf(data) == trim(substring(trim(data), 5))

IsCoinLine(data) == startsWith(trim(data), COIN)

\* C18: a line COIN:<type> makes the bridge invoke the observers exactly
\* when <type> is one of the denominations 1, 5, 10, 20.
C18_KnownTypesOnly ==
  [][\A p \in DOMAIN ports, data \in Lines :
       (PortData(p, data) /\ IsCoinLine(data) /\ coinCallbacks # <<>>)
       => (invoked' # <<>> <=> CoinTypeOf(data) \in Denominations)]_vars

\* C19: when a coin is delivered every registered observer is invoked exactly
\* once, in registration order, with the coin's value and type, also after
\* an observer that raised an exception; the delivery leaves the connection
\* state and the list of observers as they were.
C19_EachObserverOnce ==
  [][\A p \in DOMAIN ports, data \in Lines :
       (PortData(p, data) /\ IsCoinLine(data)
        /\ truthy(coinValues(CoinTypeOf(data))))
       => /\ invoked' = [k \in 1..Len(coinCallbacks) |->
                           [observer |-> coinCallbacks[k],
                            value |-> coinValues(CoinTypeOf(data)),
                            type |-> CoinTypeOf(data)]]
          /\ written' = <<>>
          /\ UNCHANGED <<isConnected, reconnectAttempts, port, ports, tasks,
                         coinCallbacks>>]_vars

\* a coin of 10 has been delivered to an observer that raised an exception
\* and then to the server's observer, which recorded it
C19_Witness ==
  /\ Len(invoked) = 2
  /\ invoked[1].observer = "faulty"
  /\ invoked[2].observer = "server"
  /\ invoked[2].value = JSNum(10)
  /\ lastCoinDetected # <<>>
  /\ isConnected

\* ---------------------------------------------------------------------
\* Coin Claim Ledger: lifetime of a claim
\* ---------------------------------------------------------------------

Age(c, k) == now - c[k].claimedAt

\* the claim is one the endpoint accepts
Accepted(timestamp, value, sessionId) ==
  truthy(timestamp) /\ truthy(value) /\ sessionId # NULL

\* C20 as stated: an entry is absent once more than the 5-minute TTL has
\* passed since it was claimed.
C20_AbsentAfterTTL ==
  \A k \in DOMAIN claimedCoins : Age(claimedCoins, k) <= claimTTL

\* C20 amended: right after claim(t, v, S) lookup(t, v) returns S with the
\* time of the claim; an entry stays until the first sweep that runs more
\* than 5 minutes after the claim and is removed by that sweep, so it is
\* never found more than 5 minutes plus one sweep interval after the claim;
\* nothing but a claim or a sweep changes the ledger.
C20_AbsentAfterSweep ==
  [][/\ \A t \in ClaimTimestamps, v \in ClaimValues, s \in FineIds :
          (ClaimCoin(t, v, s) /\ Accepted(t, v, s))
          => /\ lookup(claimedCoins', t, v).sessionId = s
             /\ lookup(claimedCoins', t, v).claimedAt = now
     /\ SweepFires
          => /\ DOMAIN claimedCoins' =
                  {k \in DOMAIN claimedCoins : Age(claimedCoins, k) <= claimTTL}
             /\ \A k \in DOMAIN claimedCoins' : claimedCoins'[k] = claimedCoins[k]
     /\ \A k \in DOMAIN claimedCoins :
          Age(claimedCoins, k) <= claimTTL + sweepInterval
     /\ \A k \in DOMAIN claimedCoins' :
          now' - claimedCoins'[k].claimedAt <= claimTTL + sweepInterval
     /\ claimedCoins' # claimedCoins
          => \/ SweepFires
             \/ \E t \in ClaimTimestamps, v \in ClaimValues, s \in FineIds :
                  ClaimCoin(t, v, s)]_vars

\* six minutes after a coin was claimed the status still reports the claim
C20_Witness ==
  /\ statusLastCoin # <<>>
  /\ statusLastCoin[1].isClaimed
  /\ statusLastCoin[1].sessionId \in FineIds
  /\ \E k \in DOMAIN claimedCoins :
       /\ k = coinKey(JSNum(statusLastCoin[1].timestamp),
                      statusLastCoin[1].value)
       /\ Age(claimedCoins, k) = claimTTL + sweepInterval

\* ---------------------------------------------------------------------
\* Coin Claim Ledger: one entry per coin key
\* ---------------------------------------------------------------------

\* the entries of ledger c that were claimed for (timestamp, value)
EntriesFor(c, timestamp, value) ==
  {k \in DOMAIN c : c[k].timestamp = timestamp /\ c[k].value = value}

\* C21: after an accepted claim on (timestamp, value) lookup returns the
\* claiming session, the ledger holds exactly one entry for that key, and
\* what lookup returns for every other (timestamp, value) is unchanged.
C21_LastWriteWins ==
  [][\A t \in BodyTimestamps, v \in BodyValues, s \in FineIds :
       (ClaimCoin(t, v, s) /\ Accepted(t, v, s))
       => /\ lookup(claimedCoins', t, v).sessionId = s
          /\ Cardinality(EntriesFor(claimedCoins', t, v)) = 1
          /\ \A t2 \in BodyTimestamps, v2 \in BodyValues :
               <<t2, v2>> # <<t, v>>
               => lookup(claimedCoins', t2, v2) = lookup(claimedCoins, t2, v2)]_vars

\* C22: a claim made while the bridge has not reported any coin matches no
\* observed coin event and creates no entry.
C22_ObservedCoinsOnly ==
  [][\A t \in BodyTimestamps, v \in BodyValues, s \in FineIds \cup {NULL} :
       (ClaimCoin(t, v, s) /\ lastCoinDetected = <<>>)
       => claimedCoins' = claimedCoins]_vars

\* ---------------------------------------------------------------------
\* Admission Queue: status reports
\* ---------------------------------------------------------------------

\* C23: for the active session getStatus reports as timeRemaining the
\* timeout window less the time since the session's last recorded activity,
\* floored at 0.
C23_ResidualBudget ==
  (activeSession # NULL /\ activeSession \in DOMAIN lastActivityTime)
  => getQueueStatus(Cur, activeSession).timeRemaining
       = Max(0, sessionTimeout - (now - lastActivityTime[activeSession]))

\* C24: the i-th session of the waiting sequence is reported as waiting,
\* not allowed to proceed, at position i; the waiting sequence is in arrival
\* order, and getQueueInfo lists the same sessions at the same positions.
C24_WaitingPositions ==
  /\ \A i \in 1..Len(queue) :
       LET status == getQueueStatus(Cur, queue[i])
           entry == getQueueInfo(Cur).queue[i]
       IN /\ status.exists
          /\ status.status = "waiting"
          /\ ~status.canProceed
          /\ status.position = i
          /\ entry.sessionId = queue[i]
          /\ entry.position = status.position
  /\ \A i, j \in 1..Len(queue) :
       i < j => sessions[queue[i]].joinedAt <= sessions[queue[j]].joinedAt
  /\ getQueueInfo(Cur).queueLength = Len(queue)
  /\ \A s \in DOMAIN sessions :
       getQueueStatus(Cur, s).status = "waiting"
       => \E i \in 1..Len(queue) : queue[i] = s

\* two sessions that arrived at different times wait at positions 1 and 2
C24_Witness ==
  /\ Len(queue) = 2
  /\ sessions[queue[1]].joinedAt < sessions[queue[2]].joinedAt
  /\ getQueueStatus(Cur, queue[1]).position = 1
  /\ getQueueStatus(Cur, queue[2]).position = 2

\* C25: a waiting session that has passed the maximum wait is removed by a
\* sweep that runs on its own interval, whatever the other sessions do: at
\* the latest one further maximum wait later, so that no session is found
\* waiting after twice the maximum wait.
C25_StaleWaiterRemoved ==
  \A s \in FineIds :
     Waiting(s) => now - sessions[s].joinedAt <= 2 * maxWaitTime

\* ---------------------------------------------------------------------
\* Admission Queue: leave, heartbeat and unknown ids
\* ---------------------------------------------------------------------

\* the waiting sequence without session s
QueueWithout(s) == SelectSeq(queue, LAMBDA x : x # s)

\* C26 as stated: a waiting session that leaves is the only thing that
\* changes, and when the active session leaves the head of the waiting
\* sequence is promoted.
C26_LeavePromotesHead ==
  [][\A s \in SessionIds :
       Leave(s)
       => /\ Waiting(s) => /\ activeSession' = activeSession
                           /\ timers' = timers
                           /\ queue' = QueueWithout(s)
          /\ (s = activeSession /\ queue # <<>>)
               => /\ activeSession' = Head(queue)
                  /\ queue' = Tail(queue)]_vars

\* C26 amended: a waiting session that leaves is removed alone: the active
\* session, its data, its last activity and the pending timeout checks are
\* unchanged and the other waiting sessions keep their data and order.  When
\* the active session leaves, the waiting sessions older than maxWaitTime
\* are removed with it and the first remaining one, if any, is promoted.
C26_LeaveFrame ==
  [][\A s \in SessionIds :
       Leave(s)
       => /\ s \notin DOMAIN sessions'
          /\ Waiting(s)
               => /\ activeSession' = activeSession
                  /\ timers' = timers
                  /\ queue' = QueueWithout(s)
                  /\ \A x \in DOMAIN sessions \ {s} :
                       /\ x \in DOMAIN sessions'
                       /\ sessions'[x] = sessions[x]
                  /\ \A x \in DOMAIN lastActivityTime \ {s} :
                       /\ x \in DOMAIN lastActivityTime'
                       /\ lastActivityTime'[x] = lastActivityTime[x]
          /\ (s = activeSession /\ s # NULL)
               => IF LiveQueue # <<>>
                  THEN /\ activeSession' = LiveQueue[1]
                       /\ queue' = Tail(LiveQueue)
                       /\ \A h \in SessionIds :
                            h = LiveQueue[1]
                            => StatusAfter(h).status = "active"
                  ELSE activeSession' = NULL /\ queue' = <<>>]_vars

\* the active session's clock is running and two sessions wait, the first
\* of which has outlived maxWaitTime: either of the three may leave
C26_Witness ==
  /\ activeSession # NULL
  /\ IdleFor(activeSession) > 0
  /\ timers # {}
  /\ Len(queue) = 2
  /\ WaitExpired(queue[1])
  /\ ~WaitExpired(queue[2])
  /\ printing[activeSession] = 0

\* a response that tells the caller the session is not in the system
ReportsNotFound(r) == "exists" \in DOMAIN r /\ ~r.exists

\* C27: getStatus, heartbeat, leave and complete applied to a session id
\* that is not in the system answer "not found" and leave the waiting
\* sequence, the active slot and the session table as they are.
C27_UnknownIdNotFound ==
  \A s \in SessionIds :
    s \notin DOMAIN sessions
    => /\ ReportsNotFound(StatusResponse(s))
       /\ ReportsNotFound(HeartbeatResponse(s))
       /\ ReportsNotFound(LeaveResponse(s))
       /\ \A q \in {updateActivity(Cur, s), removeSession(Cur, s, TRUE),
                     completeSession(Cur, s)} :
            /\ q.queue = queue
            /\ q.activeSession = activeSession
            /\ q.sessions = sessions

\* C28: a heartbeat from a session that is not the active one changes
\* nothing: not its own record (so its waiting expiry is not postponed),
\* not the active session's last activity, not the pending timeout checks.
\* A heartbeat from the active session sets its last activity to now and
\* nothing else.
C28_HeartbeatActiveOnly ==
  \A s \in SessionIds :
    IF s = activeSession
    THEN updateActivity(Cur, s) =
           [Cur EXCEPT !.lastActivityTime = With(@, s, now)]
    ELSE updateActivity(Cur, s) = Cur

\* a session has been waiting for a while behind an active session whose
\* clock is running: a heartbeat of either would show in the timestamps
C28_Witness ==
  /\ activeSession # NULL
  /\ IdleFor(activeSession) > 0
  /\ queue # <<>>
  /\ now > sessions[queue[1]].joinedAt
  /\ \E t \in timers : t.sessionId = activeSession /\ t.due > now

\* ---------------------------------------------------------------------
\* Device Bridge: the reconnect attempt counter
\* ---------------------------------------------------------------------

\* C29: the reconnect attempt counter stays within 0..maxReconnectAttempts
\* whatever open failures, error events, close events and reset requests
\* occur.
C29_CounterInRange == reconnectAttempts \in 0..maxReconnectAttempts

\* the counter stands at the cap while a port is still open and nothing is
\* pending: the next error or close event of that port meets the cap
C29_Witness ==
  /\ reconnectAttempts = maxReconnectAttempts
  /\ PortsIn({"open"}) # {}
  /\ tasks = EmptyBag

\* C30: the attempt counter is set back to zero only in a step that brings
\* the connection to READY.
C30_ResetOnlyAtReady ==
  [][(reconnectAttempts # 0 /\ reconnectAttempts' = 0) => Ready']_vars

\* ---------------------------------------------------------------------
\* Admission Queue and Device Bridge
\* ---------------------------------------------------------------------

\* a step of the Admission Queue: a join, heartbeat, leave, timeout check,
\* or a print request's admission check or completion
QueueOp ==
  \/ \E s \in FineIds, f \in FileNames : JoinQueue(s, f)
  \/ \E s \in FineIds : Heartbeat(s)
  \/ \E s \in FineIds : Leave(s)
  \/ \E t \in timers : TimeoutFires(t)
  \/ \E s \in FineIds : PrintBegin(s)
  \/ \E s \in FineIds, ok \in BOOLEAN : PrintEnd(s, ok)

\* the step writes command c to the link
CommandSent(c) ==
  /\ written' # written
  /\ \E i \in 1..Len(written') : written'[i].data[1] = c

\* C31: no step of the Admission Queue writes to the link or changes the
\* bridge in any way, and ENABLE_COINS and DISABLE_COINS are written only by
\* the requests made for them.
C31_QueueSendsNothing ==
  [][/\ QueueOp => UNCHANGED bridgeVars
     /\ \A c \in KioskCommands : CommandSent(c) => ArduinoCommand(c)]_vars

\* a waiting session has been promoted while the link was READY, and the
\* last thing written to the link is still the handshake
C31_Witness ==
  /\ Ready
  /\ activeSession # NULL
  /\ sessions[activeSession].activatedAt > sessions[activeSession].joinedAt
  /\ written # <<>>
  /\ \A i \in 1..Len(written) : written[i].data[1] = "READY"

\* ---------------------------------------------------------------------
\* Admission Queue: structural invariants
\* ---------------------------------------------------------------------

\* the ids in the waiting sequence
QueueIds == {queue[i] : i \in 1..Len(queue)}

\* the active session, if any
ActiveIds == {activeSession} \ {NULL}

\* C32: the session table holds exactly the active session and the waiting
\* sessions, each record's status says where the session is held, the
\* activity timestamps are those of the active session alone, and no status
\* report is 'unknown'.
C32_TableMatchesHolders ==
  /\ DOMAIN sessions = ActiveIds \cup QueueIds
  /\ ActiveIds \cap QueueIds = {}
  /\ \A s \in DOMAIN sessions :
       sessions[s].status = IF s = activeSession THEN "active" ELSE "waiting"
  /\ DOMAIN lastActivityTime = ActiveIds
  /\ \A s \in SessionIds : getQueueStatus(Cur, s).status # "unknown"

\* a session that waited has been promoted and another one waits behind it
C32_Witness ==
  /\ activeSession # NULL
  /\ sessions[activeSession].activatedAt > sessions[activeSession].joinedAt
  /\ Len(queue) = 1
  /\ Cardinality(DOMAIN sessions) = 2

\* C33: whenever somebody waits there is an active session, and so a join
\* makes the joining session active only when the waiting sequence is empty.
C33_NeverIdleWhileWaiting ==
  /\ [](queue # <<>> => activeSession # NULL)
  /\ [][\A s \in SessionIds, f \in FileNames :
          (JoinQueue(s, f) /\ s \notin DOMAIN sessions /\ activeSession' = s)
          => queue = <<>> /\ queue' = <<>>]_vars

\* a promoted session holds the slot while the session behind it has
\* outlived the maximum wait and still waits
C33_Witness ==
  /\ activeSession # NULL
  /\ sessions[activeSession].activatedAt > sessions[activeSession].joinedAt
  /\ queue # <<>>
  /\ WaitExpired(queue[1])

\* ---------------------------------------------------------------------
\* Admission Queue: the waiting sweep
\* ---------------------------------------------------------------------

\* the step makes the waiting session a the active one
PromotionOf(a) == Waiting(a) /\ activeSession # a /\ activeSession' = a

\* C34: a promotion removes every waiting session older than maxWaitTime
\* and promotes the first of the others in arrival order, which is the one
\* of them that has waited longest; a waiting session no older than
\* maxWaitTime leaves the system only by its own leave, and the session that
\* holds the slot after a step is never one that the step's sweep removed.
C34_ExpiredNeverPromoted ==
  [][/\ \A a \in SessionIds :
          PromotionOf(a)
          => /\ IsLive(a)
             /\ LiveQueue # <<>>
             /\ \A h \in SessionIds : h = LiveQueue[1] => h = a
             /\ \A s \in QueueIds :
                  /\ WaitExpired(s) => s \notin DOMAIN sessions'
                  /\ IsLive(s) =>
                       /\ sessions[s].joinedAt >= sessions[a].joinedAt
                       /\ s \in DOMAIN sessions'
     /\ \A s \in QueueIds :
          (IsLive(s) /\ s \notin DOMAIN sessions') => Leave(s)
     /\ activeSession' # NULL => activeSession' \in DOMAIN sessions']_vars

\* behind the active session the first waiting session is past the maximum
\* wait and the second is exactly maxWaitTime old
C34_Witness ==
  /\ activeSession # NULL
  /\ Len(queue) = 2
  /\ WaitExpired(queue[1])
  /\ now - sessions[queue[2]].joinedAt = maxWaitTime

\* ---------------------------------------------------------------------
\* Payment Gate: print requests that overlap queue operations
\* ---------------------------------------------------------------------

\* C35: a print request that passed the admission check for session s
\* completes (complete(s) is called) while s is still the active session.
C35_StillActiveAtCompletion ==
  [][\A s \in SessionIds : PrintEnd(s, TRUE) => activeSession = s]_vars

\* C36: complete(s) for a session that is not the active one leaves the
\* active slot, the active session's record and last activity and the
\* pending timeout checks as they are and promotes nobody; all it removes is
\* s itself, from the waiting sequence if it waits there.
C36_CompleteOfNonActive ==
  [][\A s \in SessionIds :
       (PrintEnd(s, TRUE) /\ s # activeSession)
       => /\ activeSession' = activeSession
          /\ timers' = timers
          /\ queue' = QueueWithout(s)
          /\ DOMAIN sessions' = DOMAIN sessions \ {s}
          /\ activeSession # NULL
               => /\ sessions'[activeSession] = sessions[activeSession]
                  /\ lastActivityTime'[activeSession]
                       = lastActivityTime[activeSession]]_vars

\* a print request admitted for a session is still running, that session
\* now waits behind another one, and the active session's clock is running
C36_Witness ==
  \E s \in SessionIds :
    /\ printing[s] > 0
    /\ Waiting(s)
    /\ activeSession # NULL
    /\ IdleFor(activeSession) > 0

\* ---------------------------------------------------------------------
\* Device Bridge: the status query
\* ---------------------------------------------------------------------

\* C37: isConnected, which the status query reports, is true exactly when
\* the port object the bridge holds is open, and every open port object is
\* the one the bridge holds while it reports connected.
C37_StatusTruthful ==
  /\ isConnected <=> (port # NULL /\ ports[port].state = "open")
  /\ \A p \in PortsIn({"open"}) : p = port /\ isConnected

====
